---- MODULE Spec2Model ----
(***************************************************************************)
(* Model of the SHARP memory display driver Adafruit_SharpMem              *)
(* (src/Adafruit_SharpMem.cpp): the packed 1-bit frame buffer, the         *)
(* rotation mapping, the dithered pixel / run / rectangle drawing calls    *)
(* and the two wire commands (clear, refresh) with their VCOM bit.         *)
(*                                                                         *)
(* Bytes are integers 0..255.  The heap is modelled as a byte array that   *)
(* is longer than the block begin() allocates: indices below AllocBytes    *)
(* are the driver's buffer, the ones above are the memory that follows it. *)
(***************************************************************************)
EXTENDS Integers, Sequences, FiniteSets, TLC

VARIABLES
    WIDTH,            \* Adafruit_GFX::WIDTH, the raw panel width
    HEIGHT,           \* Adafruit_GFX::HEIGHT, the raw panel height
    rotation,         \* Adafruit_GFX::rotation
    _width,           \* Adafruit_GFX::_width, the logical width
    _height,          \* Adafruit_GFX::_height, the logical height
    sharpmem_buffer,  \* the heap bytes from the start of the driver's block
    _sharpmem_vcom,   \* the VCOM bit the next command will carry
    cs,               \* level of the chip-select pin, "LOW" or "HIGH"
    txn,              \* TRUE while an SPI transaction is open
    events,           \* what the last clearDisplay / refresh did on the bus
    cmds,             \* the command byte of every command sent so far
    last,             \* the last call: its arguments, result and accesses
    fault,            \* "none", or how the program stopped
    ndraw             \* number of buffer-changing calls made so far

vars == <<WIDTH, HEIGHT, rotation, _width, _height, sharpmem_buffer,
          _sharpmem_vcom, cs, txn, events, cmds, last, fault, ndraw>>

-----------------------------------------------------------------------------
(* Bounds of the model *)

\* how far outside the logical canvas the coordinates of a call may lie
Margin == 1
\* buffer-changing calls per behaviour of Spec
MaxDraws == 1
\* wire commands (clearDisplay, refresh) per behaviour of Spec
MaxCmds == 2

\* the panels begin() is run for: <<width, height>>
Panels == { <<8, 8>>, <<16, 8>>, <<12, 2>>, <<4, 2>> }

Colors == 0..7

-----------------------------------------------------------------------------
(* Wire constants of the header *)

SHARPMEM_BIT_WRITECMD == 1
SHARPMEM_BIT_VCOM == 2
SHARPMEM_BIT_CLEAR == 4

-----------------------------------------------------------------------------
(* C arithmetic on small integers and bytes *)

Abs(a) == IF a < 0 THEN -a ELSE a

\* C's / and % truncate towards zero
CDiv(a, b) == IF (a < 0) = (b < 0) THEN Abs(a) \div Abs(b)
              ELSE -(Abs(a) \div Abs(b))
CMod(a, b) == a - b * CDiv(a, b)

Min(a, b) == IF a < b THEN a ELSE b

\* F applied to the value of e, with e evaluated once
Bind(e, F(_)) == CHOOSE res \in {F(v) : v \in {e}} : TRUE

Pow2(i) == CASE i = 0 -> 1 [] i = 1 -> 2 [] i = 2 -> 4 [] i = 3 -> 8
             [] i = 4 -> 16 [] i = 5 -> 32 [] i = 6 -> 64 [] i = 7 -> 128

Bit(b, i) == (b \div Pow2(i)) % 2

\* bytewise & | ~ on uint8_t
BitAnd(a, b) ==
    LET B(i) == Bit(a, i) * Bit(b, i) * Pow2(i)
    IN B(0) + B(1) + B(2) + B(3) + B(4) + B(5) + B(6) + B(7)
BitNot(a) == 255 - a
BitOr(a, b) == 255 - BitAnd(255 - a, 255 - b)

\* the lookup tables set[] and clr[]
set(i) == Pow2(i)
clr(i) == 255 - Pow2(i)

\* conversion of an int to uint16_t
U16(v) == v % 65536
\* conversion to uint8_t
U8(v) == v % 256

-----------------------------------------------------------------------------
(* Geometry of the store *)

\* bytes begin() asks malloc for
AllocBytes == (WIDTH * HEIGHT) \div 8
\* row stride used by the drawing code
RowBytes == (WIDTH + 7) \div 8
\* heap bytes the model keeps: the block and the memory after it
HeapBytes == RowBytes * HEIGHT + (WIDTH \div 8) + 1

\* the bytes of the block, as a caller of copyPixelBuffer receives them
InBlock(acc) == \A i \in acc : i >= 0 /\ i < AllocBytes

-----------------------------------------------------------------------------
(* drawPixel and getPixel *)

\* a faulty rotation switch: rotation 1 swaps the axes without mirroring
RotateDrawUnmirrored(x, y) ==
    CASE rotation = 1 -> <<y, x>>
      [] rotation = 2 -> <<WIDTH - 1 - x, HEIGHT - 1 - y>>
      [] rotation = 3 -> <<y, HEIGHT - 1 - x>>
      [] OTHER -> <<x, y>>

\* the rotation switch of drawPixel: logical (x, y) to raw <<x, y>>
RotateDraw(x, y) ==
    CASE rotation = 1 -> <<WIDTH - 1 - y, x>>
      [] rotation = 2 -> <<WIDTH - 1 - x, HEIGHT - 1 - y>>
      [] rotation = 3 -> <<y, HEIGHT - 1 - x>>
      [] OTHER -> <<x, y>>

\* the rotation switch of getPixel
RotateGet(x, y) ==
    CASE rotation = 1 -> <<WIDTH - 1 - y, x>>
      [] rotation = 2 -> <<WIDTH - 1 - x, HEIGHT - 1 - y>>
      [] rotation = 3 -> <<y, HEIGHT - 1 - x>>
      [] OTHER -> <<x, y>>

\* the byte drawPixel addresses for raw (x, y): cases 1 and 0 (and default) use
\* the row stride, the dither cases 2..7 use (y * WIDTH + x) / 8
PixelIndex(color, x, y) ==
    IF color \in 2..7 THEN (y * WIDTH + x) \div 8
    ELSE (x \div 8) + y * RowBytes

\* TRUE when drawPixel sets the bit (|= set[x & 7]), FALSE when it clears it
PixelWhite(color, x, y) ==
    CASE color = 1 -> TRUE
      [] color = 7 -> ~(y % 3 = 2 - (x % 3))
      [] color = 6 -> ~(y % 3 = x % 3)
      [] color = 5 -> ~(\/ (y % 4 = 0 /\ x % 4 = 2)
                        \/ (x % 2 = 1 /\ y % 2 = 1)
                        \/ (y % 4 = 2 /\ x % 4 = 0))
      [] color = 4 -> IF y % 2 # 0 THEN TRUE
                      ELSE ~((x + 2 * ((y \div 2) % 2)) % 4 = 0)
      [] color = 3 -> IF y % 2 # 0 THEN FALSE
                      ELSE (x + 2 * ((y \div 2) % 2)) % 4 = 0
      [] color = 2 -> (x + y) % 2 = 0
      [] OTHER -> FALSE

\* a faulty bounds test: off by one at the right and bottom edges
DrawInBoundsLoose(x, y) == ~((x < 0) \/ (x > _width) \/ (y < 0) \/ (y > _height))

\* the bounds test of drawPixel, on int16_t coordinates
DrawInBounds(x, y) == ~((x < 0) \/ (x >= _width) \/ (y < 0) \/ (y >= _height))

\* drawPixel on heap b: the heap after the call and the bytes it touched
DrawPixelOn(b, x, y, color) ==
    IF ~DrawInBounds(x, y) THEN [buf |-> b, acc |-> {}]
    ELSE LET r == RotateDraw(x, y)
             idx == PixelIndex(color, r[1], r[2])
         IN [buf |-> [b EXCEPT ![idx] =
                        IF PixelWhite(color, r[1], r[2])
                        THEN BitOr(@, set(r[1] % 8))
                        ELSE BitAnd(@, clr(r[1] % 8))],
             acc |-> {idx}]

\* the bounds test of getPixel, on uint16_t coordinates
GetInBounds(x, y) == ~((U16(x) >= _width) \/ (U16(y) >= _height))

\* the byte getPixel reads for raw (x, y)
GetIndex(x, y) == (y * WIDTH + x) \div 8

\* getPixel on heap b: the value returned and the bytes it read
GetPixelOn(b, x, y) ==
    IF ~GetInBounds(x, y) THEN [ret |-> 0, acc |-> {}]
    ELSE LET r == RotateGet(U16(x), U16(y))
             idx == GetIndex(r[1], r[2])
         IN [ret |-> IF BitAnd(b[idx], set(r[1] % 8)) # 0 THEN 1 ELSE 0,
             acc |-> {idx}]

-----------------------------------------------------------------------------
(* drawFastRawHLine *)

\* the byte the run code writes for a whole byte of row y (wholeByteColor);
\* the same table is repeated for the first and the last byte of a run
DitherByte(color, y) ==
    CASE color = 7 -> (CASE y % 4 = 0 -> 119 [] y % 4 = 1 -> 187
                         [] y % 4 = 2 -> 221 [] OTHER -> 238)
      [] color = 6 -> (CASE y % 4 = 0 -> 238 [] y % 4 = 1 -> 221
                         [] y % 4 = 2 -> 187 [] OTHER -> 119)
      [] color = 5 -> (CASE y % 4 = 0 -> 238 [] y % 4 = 1 -> 85
                         [] y % 4 = 2 -> 187 [] OTHER -> 85)
      [] color = 4 -> IF y % 2 # 0 THEN 255 ELSE 85
      [] color = 3 -> IF y % 2 # 0 THEN 0 ELSE 170
      [] color = 2 -> IF y % 2 = 0 THEN 170 ELSE 85
      [] OTHER -> IF color > 0 THEN 255 ELSE 0

\* *ptr &= ~(mask & ~pattern); *ptr |= mask & pattern;
ApplyPattern(byte, mask, pattern) ==
    BitOr(BitAnd(byte, BitNot(BitAnd(mask, BitNot(pattern)))),
          BitAnd(mask, pattern))

\* the colour chain applied to a partly covered byte (first or last of a run)
MaskedWrite(byte, mask, color, y) ==
    CASE color \in {5, 6, 7} -> ApplyPattern(byte, mask, DitherByte(color, y))
      [] color = 4 -> IF y % 2 # 0 THEN BitOr(byte, mask)
                      ELSE ApplyPattern(byte, mask, 85)
      [] color = 3 -> IF y % 2 # 0 THEN BitAnd(byte, BitNot(mask))
                      ELSE ApplyPattern(byte, mask, 170)
      [] color = 2 -> IF y % 2 = 0 THEN ApplyPattern(byte, mask, 170)
                      ELSE ApplyPattern(byte, mask, 85)
      [] color = 1 -> BitOr(byte, mask)
      [] OTHER -> BitAnd(byte, BitNot(mask))

\* set[from] | ... | set[from + n - 1]
RECURSIVE MaskBits(_, _)
MaskBits(from, n) == IF n <= 0 THEN 0 ELSE set(from) + MaskBits(from + 1, n - 1)

\* drawFastRawHLine on heap b, for raw x, y and w >= 0: the first byte when
\* x is not on a byte boundary (ptr0), the whole bytes (memset), the last byte
\* (ptr2); the three writes go to different bytes
DrawRawHLineOn(b, x, y, w, color) ==
    LET ptr0 == (x \div 8) + y * RowBytes
        first == (x % 8) > 0
        startBits == IF first THEN Min(8 - (x % 8), w) ELSE 0
        remainingWidthBits == w - startBits
        ptr1 == IF first THEN ptr0 + 1 ELSE ptr0
        more == remainingWidthBits > 0
        remainingWholeBytes == remainingWidthBits \div 8
        lastByteBits == remainingWidthBits % 8
        whole == IF more THEN ptr1 .. (ptr1 + remainingWholeBytes - 1) ELSE {}
        ptr2 == ptr1 + remainingWholeBytes
        tail == more /\ lastByteBits > 0
    IN [buf |-> [i \in DOMAIN b |->
                   CASE first /\ i = ptr0 ->
                          MaskedWrite(b[i], MaskBits(x % 8, startBits), color, y)
                     [] i \in whole -> DitherByte(color, y)
                     [] tail /\ i = ptr2 ->
                          MaskedWrite(b[i], MaskBits(0, lastByteBits), color, y)
                     [] OTHER -> b[i]],
        acc |-> (IF first THEN {ptr0} ELSE {}) \cup whole
                  \cup (IF tail THEN {ptr2} ELSE {})]

-----------------------------------------------------------------------------
(* drawFastRawVLine *)

\* the mask drawFastRawVLine computes once, before its loop
VLineMask(x, y, color) ==
    IF color > 0
    THEN IF color = 2
         THEN (IF y % 2 = 0 THEN BitAnd(set(x % 8), 170)
               ELSE BitAnd(set(x % 8), 85))
         ELSE set(x % 8)
    ELSE clr(x % 8)

\* drawFastRawVLine on heap b, for raw x, y and h >= 0
DrawRawVLineOn(b, x, y, h, color) ==
    LET ptr == (x \div 8) + y * RowBytes
        rows == {ptr + i * RowBytes : i \in 0..(h - 1)}
        bit_mask == VLineMask(x, y, color)
    IN [buf |-> [i \in DOMAIN b |->
                   IF i \in rows
                   THEN (IF color > 0 THEN BitOr(b[i], bit_mask)
                         ELSE BitAnd(b[i], bit_mask))
                   ELSE b[i]],
        acc |-> rows]

-----------------------------------------------------------------------------
(* drawFastHLine and fillRect *)

\* the arguments after the negative-width conversion: <<x, w>>
NormalizeRun(x, w) ==
    IF w < 0
    THEN LET w1 == -w
             x1 == x - (w1 - 1)
         IN IF x1 < 0 THEN <<0, w1 + x1>> ELSE <<x1, w1>>
    ELSE <<x, w>>

\* edge rejection: TRUE when the run is drawn at all
RunOnCanvas(x, y, w) ==
    ~((y < 0) \/ (y >= _height) \/ (x >= _width) \/ ((x + w - 1) < 0))

\* left and right clipping: <<x, w>>
ClipRun(x, w) ==
    LET xl == IF x < 0 THEN 0 ELSE x
        wl == IF x < 0 THEN w + x ELSE w
    IN IF xl + wl >= _width THEN <<xl, _width - xl>> ELSE <<xl, wl>>

\* drawFastHLine on heap b
DrawFastHLineOn(b, x, y, w, color) ==
    LET n == NormalizeRun(x, w)
    IN IF ~RunOnCanvas(n[1], y, n[2]) THEN [buf |-> b, acc |-> {}]
       ELSE LET c == ClipRun(n[1], n[2])
                cx == c[1]
                cw == c[2]
            IN CASE rotation = 0 -> DrawRawHLineOn(b, cx, y, cw, color)
                 [] rotation = 1 ->
                      DrawRawVLineOn(b, WIDTH - 1 - y, cx, cw, color)
                 [] rotation = 2 ->
                      DrawRawHLineOn(b, (WIDTH - 1 - cx) - (cw - 1),
                                     HEIGHT - 1 - y, cw, color)
                 [] rotation = 3 ->
                      DrawRawVLineOn(b, y, (HEIGHT - 1 - cx) - (cw - 1),
                                     cw, color)

\* the loop of fillRect from row i on
RECURSIVE FillRows(_, _, _, _, _, _)
FillRows(r, x, i, w, yEnd, color) ==
    IF ~(i < yEnd) THEN r
    ELSE Bind(DrawFastHLineOn(r.buf, x, i, w, color),
              LAMBDA one : FillRows([buf |-> one.buf, acc |-> r.acc \cup one.acc],
                                    x, i + 1, w, yEnd, color))

\* fillRect on heap b
FillRectOn(b, x, y, w, h, color) ==
    FillRows([buf |-> b, acc |-> {}], x, y, w, y + h, color)

-----------------------------------------------------------------------------
(* drawFatLine; the triangle filler is the graphics base class's *)

\* l = sqrt(n) for the segments whose length is a whole number
ISqrt(n) == CHOOSE r \in 0..n : r * r = n
IsSquare(n) == \E r \in 0..n : r * r = n

\* the scan-line loops of fillTriangle: rows y..yLast, edges from (xa, dya)
\* and (xb, dyb) with accumulators sa and sb
RECURSIVE TriRows(_, _, _, _, _, _, _, _, _, _, _, _)
TriRows(r, y, yLast, xa, sa, dxa, dya, xb, sb, dxb, dyb, color) ==
    IF y > yLast THEN r
    ELSE LET a == xa + CDiv(sa, dya)
             b == xb + CDiv(sb, dyb)
             lo == Min(a, b)
             hi == IF a > b THEN a ELSE b
         IN Bind(DrawFastHLineOn(r.buf, lo, y, hi - lo + 1, color),
                 LAMBDA one :
                   TriRows([buf |-> one.buf, acc |-> r.acc \cup one.acc],
                           y + 1, yLast, xa, sa + dxa, dxa, dya,
                           xb, sb + dxb, dxb, dyb, color))

\* three points sorted by y: <<x0, y0, x1, y1, x2, y2>>
SortByY(x0, y0, x1, y1, x2, y2) ==
    LET s1 == IF y0 > y1 THEN <<x1, y1, x0, y0, x2, y2>>
              ELSE <<x0, y0, x1, y1, x2, y2>>
        s2 == IF s1[4] > s1[6] THEN <<s1[1], s1[2], s1[5], s1[6], s1[3], s1[4]>>
              ELSE s1
    IN IF s2[2] > s2[4] THEN <<s2[3], s2[4], s2[1], s2[2], s2[5], s2[6]>>
       ELSE s2

\* fillTriangle on heap b: horizontal runs handed to drawFastHLine
FillTriangleOn(b, px0, py0, px1, py1, px2, py2, color) ==
    LET s == SortByY(px0, py0, px1, py1, px2, py2)
        x0 == s[1]  y0 == s[2]  x1 == s[3]
        y1 == s[4]  x2 == s[5]  y2 == s[6]
        r0 == [buf |-> b, acc |-> {}]
    IN IF y0 = y2
       THEN LET lo == Min(x0, Min(x1, x2))
                hi == -Min(-x0, Min(-x1, -x2))
            IN DrawFastHLineOn(b, lo, y0, hi - lo + 1, color)
       ELSE LET yl == IF y1 = y2 THEN y1 ELSE y1 - 1
                ym == IF yl < y0 THEN y0 ELSE yl + 1
            IN Bind(TriRows(r0, y0, yl, x0, 0, x1 - x0, y1 - y0,
                            x0, 0, x2 - x0, y2 - y0, color),
                    LAMBDA top :
                      TriRows(top, ym, y2, x1, (x2 - x1) * (ym - y1), x2 - x1,
                              y2 - y1, x0, (x2 - x0) * (ym - y0), x2 - x0,
                              y2 - y0, color))

\* drawFatLine on heap b
DrawFatLineOn(b, x0, y0, x1, y1, strokeWidth, color) ==
    LET px0 == y1 - y0
        py0 == -(x1 - x0)
        l == ISqrt(px0 * px0 + py0 * py0)
    IN IF strokeWidth < 1 \/ l < 1 THEN [buf |-> b, acc |-> {}]
       ELSE LET px == CDiv(strokeWidth * px0, l)
                py == CDiv(strokeWidth * py0, l)
            IN Bind(FillTriangleOn(b, x0 + px, y0 + py, x1 + px, y1 + py,
                                   x1 - px, y1 - py, color),
                    LAMBDA t1 :
                      Bind(FillTriangleOn(t1.buf, x0 + px, y0 + py, x1 - px,
                                          y1 - py, x0 - px, y0 - py, color),
                           LAMBDA t2 : [buf |-> t2.buf,
                                        acc |-> t1.acc \cup t2.acc]))

-----------------------------------------------------------------------------
(* The buffer calls and the wire commands *)

\* memset(sharpmem_buffer, 0xff, (WIDTH * HEIGHT) / 8)
ClearBufferOn(b) ==
    [buf |-> [i \in DOMAIN b |-> IF i < AllocBytes THEN 255 ELSE b[i]],
     acc |-> 0..(AllocBytes - 1)]

\* memcpy(bitmap, sharpmem_buffer, (WIDTH * HEIGHT) / 8): the bytes copied
CopyOut(b) == [k \in 1..AllocBytes |-> b[k - 1]]

\* memcpy(sharpmem_buffer, bitmap, (WIDTH * HEIGHT) / 8)
SetBitmapOn(b, bitmap) ==
    [buf |-> [i \in DOMAIN b |-> IF i < AllocBytes THEN bitmap[i + 1] ELSE b[i]],
     acc |-> 0..(AllocBytes - 1)]

\* a faulty TOGGLE_VCOM: the bit is never cleared
ToggleVcomStuck(v) == SHARPMEM_BIT_VCOM

\* TOGGLE_VCOM
ToggleVcom(v) == IF v # 0 THEN 0 ELSE SHARPMEM_BIT_VCOM

Ev(e, bytes) == [e |-> e, bytes |-> bytes]

\* a faulty clearDisplay: the transaction is closed before chip-select drops
ClearEventsEarlyEnd(v) ==
    << Ev("beginTransaction", <<>>), Ev("csHIGH", <<>>),
       Ev("transfer", <<U8(BitOr(v, SHARPMEM_BIT_CLEAR)), 0>>),
       Ev("endTransaction", <<>>), Ev("csLOW", <<>>) >>

\* the bus events of clearDisplay, in program order
ClearEvents(v) ==
    << Ev("beginTransaction", <<>>), Ev("csHIGH", <<>>),
       Ev("transfer", <<U8(BitOr(v, SHARPMEM_BIT_CLEAR)), 0>>),
       Ev("csLOW", <<>>), Ev("endTransaction", <<>>) >>

\* the record refresh builds for the row that starts at byte i
RefreshLine(b, i, bytes_per_line) ==
    LET currentline == U16(((i + 1) \div (WIDTH \div 8)) + 1)
    IN <<U8(currentline)>> \o [k \in 1..bytes_per_line |-> b[i + k - 1]] \o <<0>>

\* the row loop of refresh from byte i on: one transfer per iteration
RECURSIVE RefreshLoop(_, _, _, _)
RefreshLoop(b, i, bytes_per_line, totalbytes) ==
    IF ~(i < totalbytes) THEN <<>>
    ELSE <<Ev("transfer", RefreshLine(b, i, bytes_per_line))>>
           \o RefreshLoop(b, U16(i + bytes_per_line), bytes_per_line, totalbytes)

\* the heap bytes the row loop reads
RefreshReads(bytes_per_line, totalbytes) ==
    {i + k : i \in {j \in 0..(totalbytes - 1) : j % bytes_per_line = 0},
             k \in 0..(bytes_per_line - 1)}

\* TRUE when the first pass of the row loop divides by WIDTH / 8 = 0
RefreshDividesByZero == (WIDTH \div 8) = 0 /\ 0 < U16(AllocBytes)

\* refresh up to and including the command byte
RefreshHead(v) ==
    << Ev("beginTransaction", <<>>), Ev("csHIGH", <<>>),
       Ev("transfer", <<U8(BitOr(v, SHARPMEM_BIT_WRITECMD))>>) >>

\* the bus events of a refresh that returns, in program order
RefreshEvents(b, v) ==
    RefreshHead(v)
      \o RefreshLoop(b, 0, U8(WIDTH \div 8), U16(AllocBytes))
      \o << Ev("transfer", <<0>>), Ev("csLOW", <<>>), Ev("endTransaction", <<>>) >>

-----------------------------------------------------------------------------
(* State after begin() *)

\* contents of memory that nobody has written yet: malloc does not clear it
Fills == {"mix", "xim"}
FillByte(f, i) == IF f = "mix" THEN (53 + 37 * i) % 256
                  ELSE 255 - ((53 + 37 * i) % 256)

\* the bitmaps callers hand to setBitmap
Bitmaps == {"black", "mix"}
BitmapBytes(f) == [k \in 1..AllocBytes |->
                     IF f = "black" THEN 0 ELSE FillByte("mix", k)]

Call(op, x, y, w, h, sw, color, ret, out, acc) ==
    [op |-> op, x |-> x, y |-> y, w |-> w, h |-> h, sw |-> sw, color |-> color,
     pre |-> sharpmem_buffer, ret |-> ret, out |-> out, acc |-> acc]

Init ==
    /\ \E p \in Panels : WIDTH = p[1] /\ HEIGHT = p[2]
    /\ rotation = 0
    /\ _width = WIDTH
    /\ _height = HEIGHT
    /\ \E f \in Fills :
         sharpmem_buffer = [i \in 0..(HeapBytes - 1) |-> FillByte(f, i)]
    /\ _sharpmem_vcom = SHARPMEM_BIT_VCOM
    /\ cs = "LOW"
    /\ txn = FALSE
    /\ events = <<>>
    /\ cmds = <<>>
    /\ last = Call("begin", 0, 0, 0, 0, 0, 0, 0, <<>>, {})
    /\ fault = "none"
    /\ ndraw = 0

-----------------------------------------------------------------------------
(* The calls *)

\* an access outside the block begin() allocated is undefined: the access
\* goes to the memory after the block, and the program may stop on it
Outcomes(acc) == IF InBlock(acc) THEN {"none"} ELSE {"none", "heap"}

\* a drawing call that leaves heap r.buf after touching r.acc
Drawn(r) ==
    /\ sharpmem_buffer' = r.buf
    /\ fault' \in Outcomes(r.acc)
    /\ ndraw' = ndraw + 1
    /\ UNCHANGED <<WIDTH, HEIGHT, rotation, _width, _height, _sharpmem_vcom,
                   cs, txn, events, cmds>>

setRotation(r) ==
    /\ fault = "none"
    /\ rotation' = r % 4
    /\ _width' = IF (r % 4) \in {0, 2} THEN WIDTH ELSE HEIGHT
    /\ _height' = IF (r % 4) \in {0, 2} THEN HEIGHT ELSE WIDTH
    /\ last' = Call("setRotation", r, 0, 0, 0, 0, 0, 0, <<>>, {})
    /\ UNCHANGED <<WIDTH, HEIGHT, sharpmem_buffer, _sharpmem_vcom, cs, txn,
                   events, cmds, fault, ndraw>>

drawPixel(x, y, color) ==
    /\ fault = "none"
    /\ \E r \in {DrawPixelOn(sharpmem_buffer, x, y, color)} :
          /\ Drawn(r)
          /\ last' = Call("drawPixel", x, y, 0, 0, 0, color, 0, <<>>, r.acc)

getPixel(x, y) ==
    /\ fault = "none"
    /\ \E r \in {GetPixelOn(sharpmem_buffer, x, y)} :
          /\ last' = Call("getPixel", x, y, 0, 0, 0, 0, r.ret, <<>>, r.acc)
          /\ fault' \in Outcomes(r.acc)
    /\ UNCHANGED <<WIDTH, HEIGHT, rotation, _width, _height, sharpmem_buffer,
                   _sharpmem_vcom, cs, txn, events, cmds, ndraw>>

drawFastHLine(x, y, w, color) ==
    /\ fault = "none"
    /\ \E r \in {DrawFastHLineOn(sharpmem_buffer, x, y, w, color)} :
          /\ Drawn(r)
          /\ last' = Call("drawFastHLine", x, y, w, 0, 0, color, 0, <<>>, r.acc)

fillRect(x, y, w, h, color) ==
    /\ fault = "none"
    /\ \E r \in {FillRectOn(sharpmem_buffer, x, y, w, h, color)} :
          /\ Drawn(r)
          /\ last' = Call("fillRect", x, y, w, h, 0, color, 0, <<>>, r.acc)

drawFatLine(x0, y0, x1, y1, strokeWidth, color) ==
    /\ fault = "none"
    /\ IsSquare((y1 - y0) * (y1 - y0) + (x1 - x0) * (x1 - x0))
    /\ \E r \in {DrawFatLineOn(sharpmem_buffer, x0, y0, x1, y1, strokeWidth, color)} :
          /\ Drawn(r)
          /\ last' = Call("drawFatLine", x0, y0, x1, y1, strokeWidth, color,
                          0, <<>>, r.acc)

clearDisplayBuffer ==
    /\ fault = "none"
    /\ \E r \in {ClearBufferOn(sharpmem_buffer)} :
          /\ Drawn(r)
          /\ last' = Call("clearDisplayBuffer", 0, 0, 0, 0, 0, 0, 0, <<>>, r.acc)

setBitmap(f) ==
    /\ fault = "none"
    /\ \E r \in {SetBitmapOn(sharpmem_buffer, BitmapBytes(f))} :
          /\ Drawn(r)
          /\ last' = Call("setBitmap", 0, 0, 0, 0, 0, 0, 0, <<>>, r.acc)

copyPixelBuffer ==
    /\ fault = "none"
    /\ last' = Call("copyPixelBuffer", 0, 0, 0, 0, 0, 0, 0,
                    CopyOut(sharpmem_buffer), 0..(AllocBytes - 1))
    /\ UNCHANGED <<WIDTH, HEIGHT, rotation, _width, _height, sharpmem_buffer,
                   _sharpmem_vcom, cs, txn, events, cmds, fault, ndraw>>

\* the chip-select level after the bus events evs, from level c
RECURSIVE PinAfter(_, _)
PinAfter(evs, c) ==
    IF evs = <<>> THEN c
    ELSE PinAfter(Tail(evs), CASE Head(evs).e = "csHIGH" -> "HIGH"
                               [] Head(evs).e = "csLOW" -> "LOW"
                               [] OTHER -> c)

\* whether a transaction is open after the bus events evs, from t
RECURSIVE TxnAfter(_, _)
TxnAfter(evs, t) ==
    IF evs = <<>> THEN t
    ELSE TxnAfter(Tail(evs), CASE Head(evs).e = "beginTransaction" -> TRUE
                               [] Head(evs).e = "endTransaction" -> FALSE
                               [] OTHER -> t)

\* the first byte of the first transfer: the command byte
CommandByte(evs) == SelectSeq(evs, LAMBDA e : e.e = "transfer")[1].bytes[1]

\* a wire command that puts evs on the bus
Sent(evs) ==
    /\ events' = evs
    /\ cmds' = Append(cmds, CommandByte(evs))
    /\ cs' = PinAfter(evs, cs)
    /\ txn' = TxnAfter(evs, txn)

clearDisplay ==
    /\ fault = "none"
    /\ sharpmem_buffer' = ClearBufferOn(sharpmem_buffer).buf
    /\ Sent(ClearEvents(_sharpmem_vcom))
    /\ _sharpmem_vcom' = ToggleVcom(_sharpmem_vcom)
    /\ last' = Call("clearDisplay", 0, 0, 0, 0, 0, 0, 0, <<>>,
                    0..(AllocBytes - 1))
    /\ UNCHANGED <<WIDTH, HEIGHT, rotation, _width, _height, fault, ndraw>>

refresh ==
    /\ fault = "none"
    /\ _sharpmem_vcom' = ToggleVcom(_sharpmem_vcom)
    /\ IF RefreshDividesByZero
       THEN \* integer division by zero is undefined: the program traps, or
            \* goes on with i += 0 and never leaves the loop
            /\ Sent(RefreshHead(_sharpmem_vcom))
            /\ fault' \in {"trap", "hang"}
            /\ last' = Call("refresh", 0, 0, 0, 0, 0, 0, 0, <<>>, {})
       ELSE LET reads == RefreshReads(U8(WIDTH \div 8), U16(AllocBytes))
            IN /\ Sent(RefreshEvents(sharpmem_buffer, _sharpmem_vcom))
               /\ fault' \in Outcomes(reads)
               /\ last' = Call("refresh", 0, 0, 0, 0, 0, 0, 0, <<>>, reads)
    /\ UNCHANGED <<WIDTH, HEIGHT, rotation, _width, _height, sharpmem_buffer,
                   ndraw>>

-----------------------------------------------------------------------------
(* Spec: sequences of calls, with arguments at the corners of the canvas *)

CanDraw == ndraw < MaxDraws
CanSend == Len(cmds) < MaxCmds

Corners == { <<0, 0>>, <<_width - 1, _height - 1>> }

Next ==
    \/ \E r \in 0..3 : setRotation(r)
    \/ CanDraw /\ \E p \in Corners, c \in {0, 1} : drawPixel(p[1], p[2], c)
    \/ \E p \in Corners : getPixel(p[1], p[2])
    \/ CanDraw /\ \E p \in Corners, c \in {0, 2} :
                    drawFastHLine(p[1], p[2], - _width, c)
    \/ CanDraw /\ \E c \in {0, 1, 2} : fillRect(0, 0, _width, _height, c)
    \/ CanDraw /\ drawFatLine(0, 0, _width - 1, 0, 1, 0)
    \/ CanDraw /\ clearDisplayBuffer
    \/ CanDraw /\ \E f \in Bitmaps : setBitmap(f)
    \/ copyPixelBuffer
    \/ CanSend /\ clearDisplay
    \/ CanSend /\ refresh

Spec == Init /\ [][Next]_vars

-----------------------------------------------------------------------------
(* SpecCall: one call, with every argument in range, on a driver that has    *)
(* just been started and rotated                                             *)

Fresh == last.op \in {"begin", "setRotation"}

Xs == (-Margin)..(_width - 1 + Margin)
Ys == (-Margin)..(_height - 1 + Margin)
RunWidths == {-(_width + 1), -9, -2, -1, 0, 1, 2, 7, 8, 9, _width, _width + 1}
RectCorners == {-1, 0, 1}
RectSides == {-2, 0, 1, 3, 4, 9}

NextCall ==
    \/ Fresh /\ \E r \in 0..3 : setRotation(r)
    \/ Fresh /\ \E x \in Xs, y \in Ys, c \in Colors : drawPixel(x, y, c)
    \/ Fresh /\ \E x \in Xs, y \in Ys : getPixel(x, y)
    \/ Fresh /\ \E x \in Xs, y \in Ys, w \in RunWidths, c \in Colors :
                  drawFastHLine(x, y, w, c)
    \/ Fresh /\ \E x \in RectCorners, y \in RectCorners, w \in RectSides,
                  h \in RectSides, c \in Colors : fillRect(x, y, w, h, c)
    \/ Fresh /\ \E x0 \in {0, 1}, y0 \in {0, 1}, x1 \in {1, 4}, y1 \in {1, 5},
                  sw \in {0, 1, 2}, c \in {0, 1} :
                  drawFatLine(x0, y0, x1, y1, sw, c)
    \/ Fresh /\ clearDisplayBuffer
    \/ Fresh /\ \E f \in Bitmaps : setBitmap(f)
    \/ Fresh /\ copyPixelBuffer
    \/ Fresh /\ clearDisplay
    \/ Fresh /\ refresh

SpecCall == Init /\ [][NextCall]_vars

-----------------------------------------------------------------------------
(* Vocabulary of the properties *)

\* the logical canvas under the current rotation
LogicalWidth == IF rotation \in {1, 3} THEN HEIGHT ELSE WIDTH
LogicalHeight == IF rotation \in {1, 3} THEN WIDTH ELSE HEIGHT
OnCanvas(x, y) == x >= 0 /\ x < LogicalWidth /\ y >= 0 /\ y < LogicalHeight

\* row_stride = ceil(width / 8)
RowStride == (WIDTH + 7) \div 8

\* the raw position of logical (x, y)
RawOf(x, y) ==
    CASE rotation = 0 -> <<x, y>>
      [] rotation = 1 -> <<WIDTH - 1 - y, x>>
      [] rotation = 2 -> <<WIDTH - 1 - x, HEIGHT - 1 - y>>
      [] rotation = 3 -> <<y, HEIGHT - 1 - x>>

\* the byte and the bit that hold raw (x, y)
ByteOf(raw) == (raw[1] \div 8) + raw[2] * RowStride
BitOf(raw) == raw[1] % 8

\* byte with bit i replaced by v
WithBit(byte, i, v) == byte - Bit(byte, i) * Pow2(i) + v * Pow2(i)

\* the logical pixels of a run of signed width w from x
RunLo(x, w) == IF w < 0 THEN x + w + 1 ELSE x
RunHi(x, w) == IF w < 0 THEN x ELSE x + w - 1

\* drawPixel on each pixel x..xEnd of row y, in turn
RECURSIVE PixelRun(_, _, _, _, _)
PixelRun(b, x, xEnd, y, color) ==
    IF x > xEnd THEN b
    ELSE Bind(DrawPixelOn(b, x, y, color).buf,
              LAMBDA b2 : PixelRun(b2, x + 1, xEnd, y, color))

\* the transfers among the bus events
Transfers(evs) == SelectSeq(evs, LAMBDA e : e.e = "transfer")

\* row i (0-based) of the store: row_stride bytes
RowRecord(b, i) ==
    <<i + 1>> \o [k \in 1..RowStride |-> b[i * RowStride + k - 1]] \o <<0>>

\* the logical pixels a fillRect of the last call covers on the canvas
FilledXs == {x \in RunLo(last.x, last.w)..RunHi(last.x, last.w) :
               x >= 0 /\ x < LogicalWidth}
FilledYs == {y \in last.y..(last.y + last.h - 1) : y >= 0 /\ y < LogicalHeight}

\* heap b with every byte complemented
Complement(b) == [i \in DOMAIN b |-> 255 - b[i]]

-----------------------------------------------------------------------------
(* The properties *)

\* C1: after drawPixel(x, y, c) with c in {0, 1} on an in-bounds (x, y), for
\* any panel size, rotation and prior buffer, getPixel(x, y) returns c.
C1_RoundTrip ==
    (last.op = "drawPixel" /\ fault = "none" /\ last.color \in {0, 1}
       /\ OnCanvas(last.x, last.y))
    => GetPixelOn(sharpmem_buffer, last.x, last.y).ret = last.color

\* C2: drawFastHLine(x, y, w, color) leaves the buffer identical to the one
\* produced by drawPixel with the same colour on each pixel of the run.
C2_RunEqualsPixels ==
    last.op = "drawFastHLine"
    => sharpmem_buffer = PixelRun(last.pre, RunLo(last.x, last.w),
                                  RunHi(last.x, last.w), last.y, last.color)

\* C3: a refresh that returns has transferred the command byte (vcom | WRITE),
\* then HEIGHT records {i + 1, the row_stride bytes of row i, 0x00}, then one
\* 0x00 byte.
C3_RefreshFormat ==
    (last.op = "refresh" /\ fault = "none")
    => LET xf == Transfers(events)
       IN /\ Len(xf) = HEIGHT + 2
          /\ xf[1].bytes = <<BitOr(ToggleVcom(_sharpmem_vcom),
                                   SHARPMEM_BIT_WRITECMD)>>
          /\ \A i \in 0..(HEIGHT - 1) :
                xf[i + 2].bytes = RowRecord(sharpmem_buffer, i)
          /\ xf[HEIGHT + 2].bytes = <<0>>

\* C4: the k-th command sent carries the initial VCOM polarity for odd k and
\* its inverse for even k; every clearDisplay and every refresh toggles vcom
\* once, and no other call changes it.
C4_VcomBookkeeping ==
    /\ [](\A k \in 1..Len(cmds) :
            BitAnd(cmds[k], SHARPMEM_BIT_VCOM)
              = IF k % 2 = 1 THEN SHARPMEM_BIT_VCOM ELSE 0)
    /\ [][IF last'.op \in {"clearDisplay", "refresh"}
          THEN /\ _sharpmem_vcom' # _sharpmem_vcom
               /\ _sharpmem_vcom' \in {0, SHARPMEM_BIT_VCOM}
               /\ Len(cmds') = Len(cmds) + 1
          ELSE /\ _sharpmem_vcom' = _sharpmem_vcom
               /\ cmds' = cmds]_vars

\* C4 witness: two commands with a drawing call among the calls, the first
\* carrying the VCOM bit and the second not.
C4_Witness ==
    /\ Len(cmds) = 2
    /\ ndraw = 1
    /\ BitAnd(cmds[1], SHARPMEM_BIT_VCOM) = SHARPMEM_BIT_VCOM
    /\ BitAnd(cmds[2], SHARPMEM_BIT_VCOM) = 0
    /\ last.op = "refresh"

\* C5: drawPixel(x, y, c), c in {0, 1}, on an in-bounds (x, y) sets the bit
\* x_raw mod 8 of byte (x_raw / 8) + y_raw * row_stride to c, where
\* (x_raw, y_raw) is rot0 (x, y), rot1 (W-1-y, x), rot2 (W-1-x, H-1-y),
\* rot3 (y, H-1-x), and changes no other bit.
C5_RotationMapping ==
    (last.op = "drawPixel" /\ last.color \in {0, 1} /\ OnCanvas(last.x, last.y))
    => LET raw == RawOf(last.x, last.y)
       IN sharpmem_buffer =
            [last.pre EXCEPT ![ByteOf(raw)] = WithBit(@, BitOf(raw), last.color)]

\* C5 witness: on the 16x8 panel under rotation 1, drawPixel(0, 0, 1) has set
\* bit 7 of byte 1, the bit of raw (15, 0).
C5_Witness ==
    /\ WIDTH = 16 /\ HEIGHT = 8 /\ rotation = 1
    /\ last.op = "drawPixel" /\ last.x = 0 /\ last.y = 0 /\ last.color = 1
    /\ Bit(last.pre[1], 7) = 0
    /\ sharpmem_buffer = [last.pre EXCEPT ![1] = @ + 128]

\* C6: after fillRect(x0, y0, w, h, GRAY), getPixel agrees at (x, y),
\* (x + 2, y) and (x, y + 2) whenever all three lie in the filled region.
C6_GrayPeriodic ==
    (last.op = "fillRect" /\ last.color = 2 /\ fault = "none")
    => \A x \in FilledXs, y \in FilledYs :
         (x + 2 \in FilledXs /\ y + 2 \in FilledYs)
         => /\ GetPixelOn(sharpmem_buffer, x, y).ret
                = GetPixelOn(sharpmem_buffer, x + 2, y).ret
            /\ GetPixelOn(sharpmem_buffer, x, y).ret
                = GetPixelOn(sharpmem_buffer, x, y + 2).ret

\* C7: copyPixelBuffer right after clearDisplayBuffer or clearDisplay yields
\* row_stride * height bytes, each 0xFF, and every pixel reads back white.
C7_ClearThenDump ==
    [][(last.op \in {"clearDisplayBuffer", "clearDisplay"}
          /\ last'.op = "copyPixelBuffer")
       => /\ Len(last'.out) = RowStride * HEIGHT
          /\ \A k \in 1..Len(last'.out) : last'.out[k] = 255
          /\ \A x \in 0..(LogicalWidth - 1), y \in 0..(LogicalHeight - 1) :
                GetPixelOn(sharpmem_buffer, x, y).ret = 1]_vars

\* C8: drawPixel outside the logical canvas leaves the buffer and vcom as they
\* were, and getPixel outside it returns 0 without reading the buffer.
C8_OutOfBoundsIgnored ==
    /\ []((last.op = "drawPixel" /\ ~OnCanvas(last.x, last.y))
            => (sharpmem_buffer = last.pre /\ last.acc = {}))
    /\ []((last.op = "getPixel" /\ ~OnCanvas(last.x, last.y))
            => (last.ret = 0 /\ last.acc = {}))
    /\ [][(last'.op = "drawPixel" /\ ~OnCanvas(last'.x, last'.y))
          => (sharpmem_buffer' = sharpmem_buffer
              /\ _sharpmem_vcom' = _sharpmem_vcom)]_vars

\* C8 witness: a dithered drawPixel one column right of the canvas that left
\* the buffer alone.
C8_Witness ==
    /\ last.op = "drawPixel" /\ last.x = LogicalWidth /\ last.y = 0
    /\ last.color = 7
    /\ sharpmem_buffer = last.pre

\* C9: fillRect a second time with the same arguments changes nothing, and
\* the bits of the filled region do not depend on what the buffer held.
C9_DitherDeterministic ==
    (last.op = "fillRect" /\ fault = "none")
    => /\ FillRectOn(sharpmem_buffer, last.x, last.y, last.w, last.h,
                     last.color).buf = sharpmem_buffer
       /\ LET other == FillRectOn(Complement(last.pre), last.x, last.y, last.w,
                                  last.h, last.color).buf
          IN \A x \in FilledXs, y \in FilledYs :
               Bit(other[ByteOf(RawOf(x, y))], BitOf(RawOf(x, y)))
                 = Bit(sharpmem_buffer[ByteOf(RawOf(x, y))], BitOf(RawOf(x, y)))

\* C10: a command opens the transaction, raises chip-select, transfers, lowers
\* chip-select and closes the transaction, in that order; every transfer
\* happens with chip-select HIGH inside the transaction; once the call has
\* returned chip-select is LOW and no transaction is open.
C10_BusOrdering ==
    /\ fault = "none" => (cs = "LOW" /\ ~txn)
    /\ events # <<>> =>
         /\ Len(events) >= 3
         /\ events[1].e = "beginTransaction"
         /\ events[2].e = "csHIGH"
         /\ events[3].e = "transfer"
         /\ \A i \in 1..Len(events) :
               events[i].e = "transfer"
               => /\ PinAfter(SubSeq(events, 1, i - 1), "LOW") = "HIGH"
                  /\ TxnAfter(SubSeq(events, 1, i - 1), FALSE)
         /\ fault = "none" =>
               /\ events[Len(events) - 1].e = "csLOW"
               /\ events[Len(events)].e = "endTransaction"
               /\ \A i \in 3..(Len(events) - 2) : events[i].e = "transfer"

\* C10 witness: a second command, a refresh, has returned.
C10_Witness ==
    /\ last.op = "refresh" /\ fault = "none" /\ Len(cmds) = 2
    /\ Len(events) > 5
    /\ cs = "LOW" /\ ~txn

\* C11: every byte index a call reads or writes lies inside the store that
\* begin() allocated: it is >= 0 and < the allocated byte count.
C11_AccessInStore ==
    \A i \in last.acc : i >= 0 /\ i < AllocBytes

\* C12: refresh terminates for every panel of positive width and height: no
\* division by zero, the row loop advances on every pass, and the call reaches
\* the final chip-select LOW and endTransaction.
C12_RefreshCompletes ==
    last.op = "refresh"
    => /\ fault \notin {"trap", "hang"}
       /\ Len(events) >= 2
       /\ events[Len(events) - 1].e = "csLOW"
       /\ events[Len(events)].e = "endTransaction"
       /\ U8(WIDTH \div 8) > 0

====
